---------------------------- MODULE Spec2Model ----------------------------
(***************************************************************************)
(* Symbol resolution and valuation engine of portfolio_analyzer:           *)
(*   - the symbol classifier / parser (yahoo_interface.py, app.py),        *)
(*   - price resolution against the market-data provider,                  *)
(*   - the valuation pipeline of app.py and the grouped summary of         *)
(*     portfolio_ai_analyzer.py.                                           *)
(*                                                                         *)
(* Strings are sequences of one-character strings.  Money is counted in    *)
(* half-cents (1.10 is 220), so that a bid/ask midpoint of two whole-cent  *)
(* quotes is exact; strikes are counted in thousandths (380.00 is 380000). *)
(***************************************************************************)
EXTENDS Integers, Sequences, FiniteSets, TLC

VARIABLES
    \* --- symbol classification / parsing (SpecSymbol)
    sym,          \* the cleaned symbol under classification
    spc,          \* position: "cleaned", then "classified" and "parsed", or "rooted"
    isOption,     \* result of is_option_symbol / _is_option_symbol
    parsed,       \* result of _parse_option_symbol (None or a record)
    underlying,   \* result of get_underlying_ticker
    impl,         \* whose functions run: "yahoo" (YahooInterface) or "app" (app.py)
    \* --- price resolution of one symbol (SpecFetch)
    fpc,          \* position inside fetch_price
    calls,        \* the market-data provider calls made so far, in order
    expirations,  \* ticker.options, while the nearest expiration is searched
    closest_exp,  \* the expiration the search selected
    opt_chain,    \* the option chain the provider returned
    option_row,   \* the matched contract: its index, strike and quote fields
    derived,      \* the per-unit price derived from the matched contract
    result,       \* the (price, error) pair returned
    escaped,      \* an exception left fetch_price
    \* --- the valuation pipeline of app.py (SpecApp)
    apc,          \* position inside the pipeline
    holdings,     \* df after cleaning: rows of Symbol and Shares
    idx,          \* the fetch loop's index into unique_symbols
    prices,       \* the prices dict
    errors,       \* the errors list: the symbol and the message of each failure
    quotes,       \* what fetch_price returned for each symbol fetched so far
    valued,       \* df after valuation: the retained rows with their new columns
    summary,      \* total_value and the metrics shown (None: no valuation made)
    pie_data,     \* the grouped data of the pie chart
    grouped       \* the grouped section of format_portfolio_summary

symVars == <<sym, spc, isOption, parsed, underlying>>

fetchVars == <<fpc, calls, expirations, closest_exp, opt_chain, option_row,
               derived, result, escaped>>

appVars == <<apc, holdings, idx, prices, errors, quotes, valued, summary,
             pie_data, grouped>>

vars == <<symVars, impl, fetchVars, appVars>>

None == [none |-> TRUE]

\* a Python float: a number or NaN
Num(n) == [v |-> n]
NaN == [nan |-> TRUE]

-----------------------------------------------------------------------------
(* Characters *)

UpperAZ == {"A","B","C","D","E","F","G","H","I","J","K","L","M",
            "N","O","P","Q","R","S","T","U","V","W","X","Y","Z"}

Digits == {"0","1","2","3","4","5","6","7","8","9"}

\* the characters of the model's alphabet that Python's \s, str.strip() and
\* str.split() treat as whitespace
Whitespace == {" ", "\t", "\n"}

DigitVal(c) ==
    CASE c = "0" -> 0 [] c = "1" -> 1 [] c = "2" -> 2 [] c = "3" -> 3
      [] c = "4" -> 4 [] c = "5" -> 5 [] c = "6" -> 6 [] c = "7" -> 7
      [] c = "8" -> 8 [] c = "9" -> 9

\* str.upper() on one character
UpperChar(c) ==
    CASE c = "a" -> "A" [] c = "b" -> "B" [] c = "c" -> "C" [] c = "d" -> "D"
      [] c = "e" -> "E" [] c = "f" -> "F" [] c = "g" -> "G" [] c = "h" -> "H"
      [] c = "i" -> "I" [] c = "j" -> "J" [] c = "k" -> "K" [] c = "l" -> "L"
      [] c = "m" -> "M" [] c = "n" -> "N" [] c = "o" -> "O" [] c = "p" -> "P"
      [] c = "q" -> "Q" [] c = "r" -> "R" [] c = "s" -> "S" [] c = "t" -> "T"
      [] c = "u" -> "U" [] c = "v" -> "V" [] c = "w" -> "W" [] c = "x" -> "X"
      [] c = "y" -> "Y" [] c = "z" -> "Z" [] OTHER -> c

StrUpper(s) == [i \in 1..Len(s) |-> UpperChar(s[i])]

RECURSIVE LStrip(_)
LStrip(s) == IF s # <<>> /\ Head(s) \in Whitespace THEN LStrip(Tail(s)) ELSE s

RECURSIVE RStrip(_)
RStrip(s) ==
    IF s # <<>> /\ s[Len(s)] \in Whitespace
    THEN RStrip(SubSeq(s, 1, Len(s) - 1))
    ELSE s

\* str.strip()
StrStrip(s) == RStrip(LStrip(s))

\* app.py: df['Symbol'].str.upper().str.strip()
CleanSymbol(raw) == StrStrip(StrUpper(raw))

\* str.split(): the maximal runs of non-whitespace characters, in order
RECURSIVE SplitFrom(_, _, _)
SplitFrom(s, i, cur) ==
    IF i > Len(s)
    THEN (IF cur = <<>> THEN <<>> ELSE <<cur>>)
    ELSE IF s[i] \in Whitespace
         THEN (IF cur = <<>> THEN <<>> ELSE <<cur>>) \o SplitFrom(s, i + 1, <<>>)
         ELSE SplitFrom(s, i + 1, Append(cur, s[i]))

StrSplit(s) == SplitFrom(s, 1, <<>>)

-----------------------------------------------------------------------------
(* The classifier: re.match(pattern, symbol) *)

InClass(c, cls) ==
    CASE cls = "AZ"    -> c \in UpperAZ
      [] cls = "space" -> c \in Whitespace
      [] cls = "digit" -> c \in Digits
      [] cls = "slash" -> c = "/"
      [] cls = "dot"   -> c = "."
      [] cls = "CP"    -> c \in {"C", "P"}

\* hi = -1: no upper limit on the repetition
Rep(cls, lo, hi) == [cls |-> cls, lo |-> lo, hi |-> hi]

\* r'^[A-Z]+\s+\d{2}/\d{2}/\d{4}\s+\d+\.?\d*\s+[CP]$'
OptionPatternIntegerStrike ==
    << Rep("AZ", 1, -1), Rep("space", 1, -1),
       Rep("digit", 2, 2), Rep("slash", 1, 1),
       Rep("digit", 2, 2), Rep("slash", 1, 1),
       Rep("digit", 4, 4), Rep("space", 1, -1),
       Rep("digit", 1, -1),
       Rep("space", 1, -1), Rep("CP", 1, 1) >>

OptionPattern ==
    << Rep("AZ", 1, -1), Rep("space", 1, -1),
       Rep("digit", 2, 2), Rep("slash", 1, 1),
       Rep("digit", 2, 2), Rep("slash", 1, 1),
       Rep("digit", 4, 4), Rep("space", 1, -1),
       Rep("digit", 1, -1), Rep("dot", 0, 1), Rep("digit", 0, -1),
       Rep("space", 1, -1), Rep("CP", 1, 1) >>

\* Whether pattern elements k.. match s from position i on, the pattern's
\* closing $ included: $ matches at the end of the string and just before a
\* final newline.
RECURSIVE MatchFrom(_, _, _, _)
MatchFrom(pat, s, i, k) ==
    IF k > Len(pat)
    THEN i = Len(s) + 1 \/ (i = Len(s) /\ s[i] = "\n")
    ELSE LET e   == pat[k]
             top == IF e.hi = -1 \/ e.hi > Len(s) - i + 1
                    THEN Len(s) - i + 1 ELSE e.hi
         IN \E n \in e.lo..top :
               /\ \A j \in i..(i + n - 1) : InClass(s[j], e.cls)
               /\ MatchFrom(pat, s, i + n, k + 1)

ReMatch(pat, s) == MatchFrom(pat, s, 1, 1)

\* YahooInterface._is_option_symbol
YI_is_option_symbol(symbol) == ReMatch(OptionPattern, symbol)

\* app.py is_option_symbol
App_is_option_symbol(symbol) == ReMatch(OptionPattern, symbol)

-----------------------------------------------------------------------------
(* The parser: symbol.split(), datetime.strptime, float *)

IsLeap(y) == (y % 4 = 0 /\ y % 100 # 0) \/ y % 400 = 0

DaysInMonth(y, m) ==
    CASE m \in {1, 3, 5, 7, 8, 10, 12} -> 31
      [] m \in {4, 6, 9, 11}           -> 30
      [] m = 2                         -> IF IsLeap(y) THEN 29 ELSE 28

RECURSIVE DecimalValue(_)
DecimalValue(ds) ==
    IF ds = <<>> THEN 0
    ELSE 10 * DecimalValue(SubSeq(ds, 1, Len(ds) - 1)) + DigitVal(ds[Len(ds)])

AllDigits(t) == \A i \in 1..Len(t) : t[i] \in Digits

\* the fields of a token between its "/" characters
RECURSIVE FieldsFrom(_, _, _)
FieldsFrom(t, i, cur) ==
    IF i > Len(t) THEN <<cur>>
    ELSE IF t[i] = "/"
         THEN <<cur>> \o FieldsFrom(t, i + 1, <<>>)
         ELSE FieldsFrom(t, i + 1, Append(cur, t[i]))

\* the fields read as strptime reads them, without the check that the day
\* exists in the month
Strptime_mdY_NoCalendar(t) ==
    LET f == FieldsFrom(t, 1, <<>>) IN
    IF Len(f) # 3 THEN None
    ELSE LET mo == f[1]  dy == f[2]  yr == f[3] IN
         IF ~ (/\ AllDigits(mo) /\ Len(mo) \in {1, 2}
               /\ AllDigits(dy) /\ Len(dy) \in {1, 2}
               /\ AllDigits(yr) /\ Len(yr) = 4)
         THEN None
         ELSE LET m == DecimalValue(mo)
                  d == DecimalValue(dy)
                  y == DecimalValue(yr)
              IN IF m \in 1..12 /\ d \in 1..31 /\ y >= 1
                 THEN [year |-> y, month |-> m, day |-> d]
                 ELSE None

\* datetime.strptime(t, '%m/%d/%Y'): %m is 1[0-2]|0[1-9]|[1-9], %d is
\* 3[01]|[12]\d|0[1-9]|[1-9], %Y is \d\d\d\d, and the date must exist
\* (year >= MINYEAR = 1).  None stands for the ValueError.
Strptime_mdY(t) ==
    LET f == FieldsFrom(t, 1, <<>>) IN
    IF Len(f) # 3 THEN None
    ELSE LET mo == f[1]  dy == f[2]  yr == f[3] IN
         IF ~ (/\ AllDigits(mo) /\ Len(mo) \in {1, 2}
               /\ AllDigits(dy) /\ Len(dy) \in {1, 2}
               /\ AllDigits(yr) /\ Len(yr) = 4)
         THEN None
         ELSE LET m == DecimalValue(mo)
                  d == DecimalValue(dy)
                  y == DecimalValue(yr)
              IN IF m \in 1..12 /\ d >= 1 /\ y >= 1 /\ d <= DaysInMonth(y, m)
                 THEN [year |-> y, month |-> m, day |-> d]
                 ELSE None

\* float(t) on decimal literals: digits with at most one ".", at least one
\* digit; the value in thousandths.  None stands for the ValueError.
PyFloat(t) ==
    LET dots == {i \in 1..Len(t) : t[i] = "."} IN
    IF Cardinality(dots) > 1 THEN None
    ELSE LET p    == IF dots = {} THEN Len(t) + 1 ELSE CHOOSE i \in dots : TRUE
             ip   == SubSeq(t, 1, p - 1)
             fp   == SubSeq(t, p + 1, Len(t))
             fp3  == SubSeq(fp \o <<"0", "0", "0">>, 1, 3)
         IN IF AllDigits(ip) /\ AllDigits(fp) /\ Len(ip) + Len(fp) > 0
            THEN Num(1000 * DecimalValue(ip) + DecimalValue(fp3))
            ELSE None

\* YahooInterface._parse_option_symbol: None on a wrong token count and on
\* any exception of strptime or float
YI_parse_option_symbol(symbol) ==
    LET parts == StrSplit(symbol) IN
    IF Len(parts) # 4 THEN None
    ELSE LET exp_date == Strptime_mdY(parts[2])
             strike   == PyFloat(parts[3])
         IN IF exp_date = None \/ strike = None THEN None
            ELSE [underlying  |-> parts[1],
                  exp_date    |-> exp_date,
                  strike      |-> strike,
                  option_type |-> StrUpper(parts[4])]

\* app.py parse_option_symbol
App_parse_option_symbol(symbol) == YI_parse_option_symbol(symbol)

get_underlying_ticker_unchecked(symbol) ==
    IF YI_is_option_symbol(symbol)
    THEN StrSplit(symbol)[1]
    ELSE symbol

\* YahooInterface.get_underlying_ticker
get_underlying_ticker(symbol) ==
    IF YI_is_option_symbol(symbol) /\ YI_parse_option_symbol(symbol) # None
    THEN YI_parse_option_symbol(symbol).underlying
    ELSE symbol

-----------------------------------------------------------------------------
(* SpecSymbol: classification, parsing and root extraction of one symbol *)

Impls == {"yahoo", "app"}

Str_QQQ == <<"Q", "Q", "Q">>
Str_aapl == <<"a", "a", "p", "l">>
Str_Q1 == <<"Q", "1">>
Str_BRKB == <<"B", "R", "K", ".", "B">>

RawRoots == {<<>>, Str_QQQ, Str_aapl, Str_Q1, Str_BRKB}

RawSeps == {<<" ">>, <<" ", " ">>, <<"\t">>, <<>>}

Date_01_15_2027 == <<"0","1","/","1","5","/","2","0","2","7">>
Date_02_30_2027 == <<"0","2","/","3","0","/","2","0","2","7">>
Date_02_29_2028 == <<"0","2","/","2","9","/","2","0","2","8">>
Date_13_01_2027 == <<"1","3","/","0","1","/","2","0","2","7">>
Date_1_15_2027 == <<"1","/","1","5","/","2","0","2","7">>
Date_01_15_27 == <<"0","1","/","1","5","/","2","7">>

RawDates == {<<>>, Date_01_15_2027, Date_02_30_2027, Date_02_29_2028,
             Date_13_01_2027, Date_1_15_2027, Date_01_15_27}

Strike_380_00 == <<"3","8","0",".","0","0">>
Strike_380 == <<"3","8","0">>
Strike_380_dot == <<"3","8","0",".">>
Strike_dot_5 == <<".","5">>
Strike_3_8_0 == <<"3",".","8",".","0">>

RawStrikes == {<<>>, Strike_380_00, Strike_380, Strike_380_dot, Strike_dot_5,
               Strike_3_8_0}

RawRights == {<<>>, <<"C">>, <<"p">>, <<"X">>, <<"C", "P">>, <<"C", "\n">>}

\* the raw Symbol cells: a root, a date, a strike and a right, each possibly
\* malformed or absent, with separators of zero, one or more whitespace
RawSymbols ==
    { r \o s1 \o d \o s2 \o k \o s3 \o t :
        r \in RawRoots, s1 \in RawSeps, d \in RawDates, s2 \in RawSeps,
        k \in RawStrikes, s3 \in RawSeps, t \in RawRights }

\* Symbol cells after app.py's cleaning; empty cells are dropped upstream
CleanedSymbols == { CleanSymbol(r) : r \in RawSymbols } \ {<<>>}

is_option_symbol(i, symbol) ==
    IF i = "yahoo" THEN YI_is_option_symbol(symbol)
    ELSE App_is_option_symbol(symbol)

parse_option_symbol(i, symbol) ==
    IF i = "yahoo" THEN YI_parse_option_symbol(symbol)
    ELSE App_parse_option_symbol(symbol)

FetchIdle ==
    /\ fpc = "idle"
    /\ calls = <<>>
    /\ expirations = <<>>
    /\ closest_exp = None
    /\ opt_chain = None
    /\ option_row = None
    /\ derived = None
    /\ result = None
    /\ escaped = FALSE

AppIdle ==
    /\ apc = "idle"
    /\ holdings = <<>>
    /\ idx = 0
    /\ prices = <<>>
    /\ errors = <<>>
    /\ quotes = <<>>
    /\ valued = <<>>
    /\ summary = None
    /\ pie_data = <<>>
    /\ grouped = {}

InitSymbol ==
    /\ FetchIdle
    /\ AppIdle
    /\ sym \in CleanedSymbols
    /\ impl \in Impls
    /\ spc = "cleaned"
    /\ isOption = FALSE
    /\ parsed = None
    /\ underlying = None

\* is_option_symbol(symbol)
Classify ==
    /\ spc = "cleaned"
    /\ isOption' = is_option_symbol(impl, sym)
    /\ spc' = "classified"
    /\ UNCHANGED <<sym, parsed, underlying, impl, fetchVars, appVars>>

\* parse_option_symbol(symbol), which the callers reach for options only
Parse ==
    /\ spc = "classified"
    /\ isOption
    /\ parsed' = parse_option_symbol(impl, sym)
    /\ spc' = "parsed"
    /\ UNCHANGED <<sym, isOption, underlying, impl, fetchVars, appVars>>

\* YahooInterface.get_underlying_ticker(symbol)
Underlying ==
    /\ spc = "cleaned"
    /\ impl = "yahoo"
    /\ underlying' = [root |-> get_underlying_ticker(sym)]
    /\ spc' = "rooted"
    /\ UNCHANGED <<sym, isOption, parsed, impl, fetchVars, appVars>>

NextSymbol == Classify \/ Parse \/ Underlying

SpecSymbol == InitSymbol /\ [][NextSymbol]_vars

-----------------------------------------------------------------------------
(* The contract-symbol grammar, stated on tokens *)

\* the pieces of s between single " " characters (empty pieces kept)
RECURSIVE PiecesFrom(_, _, _)
PiecesFrom(s, i, cur) ==
    IF i > Len(s) THEN <<cur>>
    ELSE IF s[i] = " "
         THEN <<cur>> \o PiecesFrom(s, i + 1, <<>>)
         ELSE PiecesFrom(s, i + 1, Append(cur, s[i]))

IsRootToken(t) == Len(t) >= 1 /\ \A i \in 1..Len(t) : t[i] \in UpperAZ

IsDateToken(t) ==
    /\ Len(t) = 10
    /\ \A i \in {1, 2, 4, 5, 7, 8, 9, 10} : t[i] \in Digits
    /\ t[3] = "/" /\ t[6] = "/"

\* one or more digits, then optionally a dot and zero or more digits
IsStrikeToken(t) ==
    /\ Len(t) >= 1
    /\ t[1] \in Digits
    /\ \A i \in 1..Len(t) : t[i] \in Digits \cup {"."}
    /\ Cardinality({i \in 1..Len(t) : t[i] = "."}) <= 1

IsRightToken(t) == t \in {<<"C">>, <<"P">>}

FourTokens(tk) ==
    /\ Len(tk) = 4
    /\ IsRootToken(tk[1]) /\ IsDateToken(tk[2])
    /\ IsStrikeToken(tk[3]) /\ IsRightToken(tk[4])

\* <ROOT> <MM/DD/YYYY> <STRIKE> <C|P>, exactly one space between tokens
GrammarSingleSpace(s) == FourTokens(PiecesFrom(s, 1, <<>>))

\* the same four tokens, separated by one or more whitespace characters, with
\* no whitespace before the first or after the last
GrammarWhitespace(s) ==
    /\ s # <<>> /\ s[1] \notin Whitespace /\ s[Len(s)] \notin Whitespace
    /\ FourTokens(StrSplit(s))

\* C5 (as stated): a cleaned string classifies as CONTRACT exactly when it is
\* four single-space-separated tokens <ROOT> <MM/DD/YYYY> <STRIKE> <C|P>.
C5_SingleSpaceGrammar ==
    spc = "classified" => (isOption <=> GrammarSingleSpace(sym))

\* C5 (amended): a cleaned string classifies as CONTRACT exactly when it is
\* four tokens <ROOT> <MM/DD/YYYY> <STRIKE> <C|P> separated by one or more
\* whitespace characters each; every other string classifies as SIMPLE.  This
\* holds of both classifiers (YahooInterface and app.py).
C5_WhitespaceGrammar ==
    spc = "classified" => (isOption <=> GrammarWhitespace(sym))

\* a symbol with more than one whitespace character between two tokens has
\* been classified CONTRACT
C5_Witness ==
    /\ spc = "classified" /\ isOption
    /\ ~ GrammarSingleSpace(sym)
    /\ \E i \in 1..(Len(sym) - 1) : sym[i] = " " /\ sym[i + 1] = " "

-----------------------------------------------------------------------------
(* get_underlying_ticker *)

\* the characters of s before its first whitespace character
RECURSIVE FirstToken(_)
FirstToken(s) ==
    IF s = <<>> \/ Head(s) \in Whitespace THEN <<>>
    ELSE <<Head(s)>> \o FirstToken(Tail(s))

\* the date token MM/DD/YYYY of a contract symbol names a day of the calendar
RealDate(t) ==
    LET m == 10 * DigitVal(t[1]) + DigitVal(t[2])
        d == 10 * DigitVal(t[4]) + DigitVal(t[5])
        y == 1000 * DigitVal(t[7]) + 100 * DigitVal(t[8])
             + 10 * DigitVal(t[9]) + DigitVal(t[10])
    IN  y >= 1 /\ m \in 1..12 /\ d \in 1..DaysInMonth(y, m)

\* C10: get_underlying_ticker returns the symbol itself for a SIMPLE symbol,
\* the root (first token) for a CONTRACT symbol that parses, and the whole
\* cleaned symbol for a CONTRACT symbol whose parse fails (an invalid
\* calendar date); it always returns.
C10_UnderlyingTicker ==
    spc = "rooted" =>
       underlying =
          [root |-> IF GrammarWhitespace(sym) /\ RealDate(StrSplit(sym)[2])
                    THEN FirstToken(sym)
                    ELSE sym]

\* the root of a CONTRACT symbol with an invalid calendar date was asked for
C10_Witness ==
    /\ spc = "rooted"
    /\ GrammarWhitespace(sym) /\ ~ RealDate(StrSplit(sym)[2])
    /\ underlying = [root |-> sym]

-----------------------------------------------------------------------------
(* Price resolution: fetch_price of YahooInterface and of app.py *)

Abs(n) == IF n < 0 THEN -n ELSE n

DaysBeforeYear(y) ==
    (y - 1) * 365 + ((y - 1) \div 4) - ((y - 1) \div 100) + ((y - 1) \div 400)

RECURSIVE DaysBeforeMonth(_, _)
DaysBeforeMonth(y, m) ==
    IF m = 1 THEN 0 ELSE DaysBeforeMonth(y, m - 1) + DaysInMonth(y, m - 1)

\* date.toordinal()
ToOrdinal(d) == DaysBeforeYear(d.year) + DaysBeforeMonth(d.year, d.month) + d.day

DigitChar(n) ==
    CASE n = 0 -> "0" [] n = 1 -> "1" [] n = 2 -> "2" [] n = 3 -> "3"
      [] n = 4 -> "4" [] n = 5 -> "5" [] n = 6 -> "6" [] n = 7 -> "7"
      [] n = 8 -> "8" [] n = 9 -> "9"

TwoDigits(n) == <<DigitChar(n \div 10), DigitChar(n % 10)>>

\* exp_date.strftime('%Y-%m-%d'), for a four-digit year
Strftime_Ymd(d) ==
    TwoDigits(d.year \div 100) \o TwoDigits(d.year % 100) \o <<"-">>
       \o TwoDigits(d.month) \o <<"-">> \o TwoDigits(d.day)

\* datetime.strptime(exp, '%Y-%m-%d') on a provider expiration YYYY-MM-DD
Strptime_Ymd(t) ==
    [year  |-> DecimalValue(SubSeq(t, 1, 4)),
     month |-> DecimalValue(SubSeq(t, 6, 7)),
     day   |-> DecimalValue(SubSeq(t, 9, 10))]

\* abs((exp_dt - exp_date_only).days)
DayDiff(exp, exp_date) == Abs(ToOrdinal(Strptime_Ymd(exp)) - ToOrdinal(exp_date))

\* the loop over expirations: closest_exp and min_diff after the first n
\* entries; a later entry replaces the choice only when strictly nearer
RECURSIVE ClosestLastAfter(_, _, _)
ClosestLastAfter(exps, exp_date, n) ==
    IF n = 0 THEN [closest_exp |-> None, min_diff |-> None]
    ELSE LET before == ClosestLastAfter(exps, exp_date, n - 1)
             diff   == DayDiff(exps[n], exp_date)
         IN IF before.min_diff = None \/ diff <= before.min_diff.v
            THEN [closest_exp |-> exps[n], min_diff |-> Num(diff)]
            ELSE before

RECURSIVE ClosestAfter(_, _, _)
ClosestAfter(exps, exp_date, n) ==
    IF n = 0 THEN [closest_exp |-> None, min_diff |-> None]
    ELSE LET before == ClosestAfter(exps, exp_date, n - 1)
             diff   == DayDiff(exps[n], exp_date)
         IN IF before.min_diff = None \/ diff < before.min_diff.v
            THEN [closest_exp |-> exps[n], min_diff |-> Num(diff)]
            ELSE before

ClosestExpiration(exps, exp_date) ==
    ClosestAfter(exps, exp_date, Len(exps)).closest_exp

IsNum(x) == "v" \in DOMAIN x

\* pd.isna(x): None and NaN
IsNa(x) == x = None \/ x = NaN

\* x > 0 on a float: false for NaN
Positive(x) == IsNum(x) /\ x.v > 0

\* the double nearest to a decimal strike minus that decimal, in units of
\* 1e-19 (380.00 and 2.00 are doubles; the others are not)
ReprError(v) ==
    CASE v = 380000 -> 0
      [] v = 380004 -> 190994
      [] v = 380010 -> -90949
      [] v = 380020 -> -181899
      [] v = 1990 -> -89
      [] v = 2000 -> 0
      [] v = 2010 -> -2132

\* the double of the literal 0.01 minus 0.01, in units of 1e-19
ToleranceError == 2

\* abs(a - b) < 0.01 on doubles, a and b the doubles nearest to two decimals
\* in thousandths: the subtraction of two doubles this close is exact, so the
\* comparison is decided by the decimals unless they are exactly 0.01 apart,
\* and then by the representation errors
AbsDiffBelowTolerance(a, b) ==
    LET d == a - b
        e == ReprError(a) - ReprError(b)
    IN  \/ Abs(d) < 10
        \/ /\ Abs(d) = 10
           /\ (IF d > 0 THEN e ELSE -e) < ToleranceError

\* abs(options_df['strike'] - strike) < 0.01 (false for a NaN strike)
StrikeMatches(row_strike, strike) ==
    IsNum(row_strike) /\ IsNum(strike)
       /\ AbsDiffBelowTolerance(row_strike.v, strike.v)

\* the indices of the rows of options_df that pass the strike filter
MatchingOptions(options_df, strike) ==
    {i \in 1..Len(options_df) : StrikeMatches(options_df[i], strike)}

ChainSide(chain, option_type) ==
    IF option_type = <<"C">> THEN chain.calls ELSE chain.puts

\* the price of the matched row: lastPrice, unless it is NaN or 0, and then
\* the bid/ask midpoint, the bid alone, the ask alone, or None (no price data)
LadderPrice(row) ==
    IF IsNa(row.lastPrice) \/ row.lastPrice = Num(0)
    THEN IF Positive(row.bid) /\ Positive(row.ask)
         THEN Num((row.bid.v + row.ask.v) \div 2)
         ELSE IF Positive(row.bid) THEN row.bid
              ELSE IF Positive(row.ask) THEN row.ask
                   ELSE None
    ELSE row.lastPrice

\* YahooInterface._fetch_option_price: price = float(price) * 100
YI_contract_price(price) == Num(price.v * 100)

\* app.py fetch_price: return float(price), None
App_contract_price(price) == price

contract_price(i, price) ==
    IF i = "yahoo" THEN YI_contract_price(price) ELSE App_contract_price(price)

Err(kind) == [kind |-> kind]

Returned(price, error) == [price |-> price, error |-> error]

\* Which handler an exception raised at a position reaches: the inner
\* try/except around the exact-date chain request, the outer try/except of
\* the option branch (which also covers the inner handler's body), the
\* try/except of the stock branch, or none.
HandlerInnerUncovered(pc) ==
    CASE pc = "chain_exact"   -> "inner"
      [] pc = "ticker"        -> "outer"
      [] pc \in {"options", "chain_closest"} -> "none"
      [] pc \in {"select", "price"} -> "outer"
      [] pc = "stock"         -> "stock"
      [] OTHER                -> "none"

Handler(pc) ==
    CASE pc = "chain_exact"   -> "inner"
      [] pc \in {"ticker", "options", "chain_closest", "select", "price"}
                              -> "outer"
      [] pc = "stock"         -> "stock"
      [] OTHER                -> "none"

-----------------------------------------------------------------------------
(* SpecFetch: one call of fetch_price against a nondeterministic provider *)

MaxRows == 2
MaxExpirations == 2

Str_AAPL == <<"A", "A", "P", "L">>
Sym_QQQ_Call ==
    Str_QQQ \o <<" ">> \o Date_01_15_2027 \o <<" ">> \o Strike_380_00 \o <<" ", "C">>
Sym_F_Call ==
    <<"F", " ">> \o Date_01_15_2027 \o <<" ", "2", ".", "0", "0", " ", "C">>
Sym_QQQ_Put ==
    Str_QQQ \o <<" ">> \o Date_01_15_2027 \o <<" ", " ">> \o Strike_380 \o <<" ", "P">>
Sym_QQQ_BadDate ==
    Str_QQQ \o <<" ">> \o Date_02_30_2027 \o <<" ">> \o Strike_380_00 \o <<" ", "C">>
Sym_QQQ_BadMonth ==
    Str_QQQ \o <<" ">> \o Date_13_01_2027 \o <<" ">> \o Strike_380_00 \o <<" ", "P">>
Sym_QQQ_NoStrike ==
    Str_QQQ \o <<" ">> \o Date_01_15_2027 \o <<" ", "C">>

FetchSymbols ==
    {Str_AAPL, Sym_QQQ_Call, Sym_QQQ_Put, Sym_F_Call, Sym_QQQ_BadDate,
     Sym_QQQ_BadMonth, Sym_QQQ_NoStrike}

Exp_2027_01_08 == <<"2","0","2","7","-","0","1","-","0","8">>
Exp_2027_01_15 == <<"2","0","2","7","-","0","1","-","1","5">>
Exp_2027_01_22 == <<"2","0","2","7","-","0","1","-","2","2">>
Exp_2027_02_19 == <<"2","0","2","7","-","0","2","-","1","9">>

\* the expirations the provider may list, in any order
ProviderExpirations ==
    {Exp_2027_01_08, Exp_2027_01_15, Exp_2027_01_22, Exp_2027_02_19}

SeqsUpTo(S, n) == UNION {[1..k -> S] : k \in 0..n}

\* the strikes the provider may list: 380.00, 380.004, 380.02
\* the strikes the provider lists for an underlying
ProviderStrikes(ticker) ==
    IF ticker = Str_QQQ
    THEN {Num(380000), Num(380004), Num(380010), Num(380020)}
    ELSE {Num(1990), Num(2010)}

ProviderChains(ticker) ==
    [calls : SeqsUpTo(ProviderStrikes(ticker), MaxRows),
     puts  : SeqsUpTo(ProviderStrikes(ticker), MaxRows)]

\* quote fields of a provider row; None: the column is missing
ProviderLastPrices == {None, NaN, Num(0), Num(-200), Num(500)}
ProviderBids == {NaN, Num(0), Num(200)}
ProviderAsks == {NaN, Num(0), Num(240)}

\* info['Close'].iloc[-1] of the provider's history
ProviderCloses == {NaN, Num(0), Num(30000)}

Call(op, arg, out) == [op |-> op, arg |-> arg, out |-> out]

InitFetch ==
    /\ sym \in FetchSymbols
    /\ impl \in Impls
    /\ spc = "idle"
    /\ isOption = FALSE
    /\ parsed = None
    /\ underlying = None
    /\ fpc = "start"
    /\ calls = <<>>
    /\ expirations = <<>>
    /\ closest_exp = None
    /\ opt_chain = None
    /\ option_row = None
    /\ derived = None
    /\ result = None
    /\ escaped = FALSE
    /\ AppIdle

\* an exception raised at the current position: to its handler, or out
Raise(msg) ==
    LET h == Handler(fpc) IN
    IF h = "inner"
    THEN /\ fpc' = "options"
         /\ UNCHANGED <<result, escaped>>
    ELSE IF h \in {"outer", "stock"}
         THEN /\ fpc' = "done"
              /\ result' = Returned(None, Err(msg))
              /\ UNCHANGED escaped
         ELSE /\ fpc' = "raised"
              /\ escaped' = TRUE
              /\ UNCHANGED result

\* fetch_price: the dispatch on is_option_symbol, and for an option the parse
FetchDispatch ==
    /\ fpc = "start"
    /\ IF is_option_symbol(impl, sym)
       THEN LET p == parse_option_symbol(impl, sym) IN
            /\ parsed' = p
            /\ IF p = None
               THEN /\ fpc' = "done"
                    /\ result' = Returned(None, Err("InvalidFormat"))
               ELSE /\ fpc' = "ticker"
                    /\ UNCHANGED result
       ELSE /\ fpc' = "stock"
            /\ UNCHANGED <<parsed, result>>
    /\ UNCHANGED <<sym, spc, isOption, underlying, impl, calls, expirations,
                   closest_exp, opt_chain, option_row, derived, escaped>>
    /\ UNCHANGED appVars

\* the stock branch: yf.Ticker(symbol).history(period="1d")
FetchStock ==
    /\ fpc = "stock"
    /\ \/ /\ calls' = Append(calls, Call("history", sym, "raise"))
          /\ Raise("ProviderError")
       \/ /\ calls' = Append(calls, Call("history", sym, "empty"))
          /\ fpc' = "done"
          /\ result' = Returned(None, Err("NoProviderData"))
          /\ UNCHANGED escaped
       \/ \E close \in ProviderCloses :
          /\ calls' = Append(calls, Call("history", sym, "ok"))
          /\ fpc' = "done"
          /\ result' = Returned(close, None)
          /\ UNCHANGED escaped
    /\ UNCHANGED <<symVars, impl, expirations, closest_exp, opt_chain,
                   option_row, derived>>
    /\ UNCHANGED appVars

\* ticker = yf.Ticker(underlying)
FetchTicker ==
    /\ fpc = "ticker"
    /\ \/ /\ calls' = Append(calls, Call("Ticker", parsed.underlying, "raise"))
          /\ Raise("ProviderError")
       \/ /\ calls' = Append(calls, Call("Ticker", parsed.underlying, "ok"))
          /\ fpc' = "chain_exact"
          /\ UNCHANGED <<result, escaped>>
    /\ UNCHANGED <<symVars, impl, expirations, closest_exp, opt_chain,
                   option_row, derived>>
    /\ UNCHANGED appVars

\* opt_chain = ticker.option_chain(exp_date_str)
FetchChainExact ==
    /\ fpc = "chain_exact"
    /\ LET exp_date_str == Strftime_Ymd(parsed.exp_date) IN
       \/ /\ calls' = Append(calls, Call("option_chain", exp_date_str, "raise"))
          /\ Raise("ProviderError")
          /\ UNCHANGED opt_chain
       \/ \E chain \in ProviderChains(parsed.underlying) :
          /\ calls' = Append(calls, Call("option_chain", exp_date_str, "ok"))
          /\ opt_chain' = chain
          /\ fpc' = "select"
          /\ UNCHANGED <<result, escaped>>
    /\ UNCHANGED <<symVars, impl, expirations, closest_exp, option_row, derived>>
    /\ UNCHANGED appVars

\* the inner handler: expirations = ticker.options and the search for the
\* nearest one
FetchExpirations ==
    /\ fpc = "options"
    /\ \/ /\ calls' = Append(calls, Call("options", parsed.underlying, "raise"))
          /\ Raise("ProviderError")
          /\ UNCHANGED <<expirations, closest_exp>>
       \/ \E exps \in SeqsUpTo(ProviderExpirations, MaxExpirations) :
          /\ calls' = Append(calls, Call("options", parsed.underlying,
                                         IF exps = <<>> THEN "empty" ELSE "ok"))
          /\ expirations' = exps
          /\ IF exps = <<>>
             THEN /\ fpc' = "done"
                  /\ result' = Returned(None, Err("NoOptionData"))
                  /\ UNCHANGED closest_exp
             ELSE LET c == ClosestExpiration(exps, parsed.exp_date) IN
                  /\ closest_exp' = c
                  /\ IF c # None
                     THEN /\ fpc' = "chain_closest"
                          /\ UNCHANGED result
                     ELSE /\ fpc' = "done"
                          /\ result' = Returned(None, Err("ExpirationNotFound"))
          /\ UNCHANGED escaped
    /\ UNCHANGED <<symVars, impl, opt_chain, option_row, derived>>
    /\ UNCHANGED appVars

\* opt_chain = ticker.option_chain(closest_exp)
FetchChainClosest ==
    /\ fpc = "chain_closest"
    /\ \/ /\ calls' = Append(calls, Call("option_chain", closest_exp, "raise"))
          /\ Raise("ProviderError")
          /\ UNCHANGED opt_chain
       \/ \E chain \in ProviderChains(parsed.underlying) :
          /\ calls' = Append(calls, Call("option_chain", closest_exp, "ok"))
          /\ opt_chain' = chain
          /\ fpc' = "select"
          /\ UNCHANGED <<result, escaped>>
    /\ expirations' = <<>>
    /\ UNCHANGED <<symVars, impl, closest_exp, option_row, derived>>
    /\ UNCHANGED appVars

\* the side of the chain, the strike filter and matching_options.iloc[0]
FetchSelect ==
    /\ fpc = "select"
    /\ LET options_df == ChainSide(opt_chain, parsed.option_type)
           matching   == MatchingOptions(options_df, parsed.strike)
       IN IF matching = {}
          THEN /\ fpc' = "done"
               /\ result' = Returned(None, Err("StrikeNotFound"))
               /\ UNCHANGED option_row
          ELSE LET first == CHOOSE i \in matching : \A j \in matching : i <= j
               IN /\ option_row' = [index  |-> first,
                                    strike |-> options_df[first]]
                  /\ fpc' = "price"
                  /\ UNCHANGED result
    /\ opt_chain' = None
    /\ UNCHANGED <<symVars, impl, calls, expirations, closest_exp, derived,
                   escaped>>
    /\ UNCHANGED appVars

\* the price of the matched row, its scaling, and the return; the provider's
\* quote fields of the row are drawn as they are read
FetchPrice ==
    /\ fpc = "price"
    /\ \E last \in ProviderLastPrices, bid \in ProviderBids,
          ask \in ProviderAsks :
       LET row   == [index     |-> option_row.index,
                     strike    |-> option_row.strike,
                     lastPrice |-> last,
                     bid       |-> bid,
                     ask       |-> ask]
           price == LadderPrice(row)
       IN /\ option_row' = row
          /\ derived' = price
          /\ IF price = None
             THEN result' = Returned(None, Err("NoPriceAvailable"))
             ELSE result' = Returned(contract_price(impl, price), None)
    /\ fpc' = "done"
    /\ UNCHANGED <<symVars, impl, calls, expirations, closest_exp, opt_chain,
                   escaped>>
    /\ UNCHANGED appVars

NextFetch ==
    \/ FetchDispatch
    \/ FetchStock
    \/ FetchTicker
    \/ FetchChainExact
    \/ FetchExpirations
    \/ FetchChainClosest
    \/ FetchSelect
    \/ FetchPrice

SpecFetch == InitFetch /\ [][NextFetch]_vars

-----------------------------------------------------------------------------
(* Claims about price resolution *)

\* C2: whatever the provider does (data, empty data, not found, an exception
\* at any provider call), fetch_price returns normally with a (price, error)
\* pair in which exactly one of the two is set, and no exception escapes.
C2_ExactlyOneOfPriceError ==
    /\ ~ escaped
    /\ fpc # "raised"
    /\ fpc = "done" =>
          /\ DOMAIN result = {"price", "error"}
          /\ (result.price = None) # (result.error = None)

\* the provider raised at the chain request for the nearest expiration, that
\* is inside the handler of the first failure, and an error pair was returned
C2_Witness ==
    /\ fpc = "done"
    /\ Len(calls) = 4
    /\ calls[2].out = "raise" /\ calls[4].op = "option_chain"
    /\ calls[4].out = "raise"
    /\ result.price = None /\ result.error = Err("ProviderError")

\* C3: for every CONTRACT symbol that resolves, the unit price returned is
\* 100 times the per-unit price derived from the matched contract, by
\* YahooInterface.fetch_price and by app.py's fetch_price alike.
C3_ContractScaling ==
    (fpc = "done" /\ derived # None) =>
        result = Returned(Num(100 * derived.v), None)

\* the price ladder of the specification: last-traded price if present and
\* strictly positive, else the midpoint of a positive bid and ask, else the
\* positive one of the two, else no price
C4_Ladder(row) ==
    IF Positive(row.lastPrice) THEN row.lastPrice
    ELSE IF Positive(row.bid) /\ Positive(row.ask)
         THEN Num((row.bid.v + row.ask.v) \div 2)
         ELSE IF Positive(row.bid) THEN row.bid
              ELSE IF Positive(row.ask) THEN row.ask
                   ELSE None

\* C4: the price derived from a matched contract follows the ladder in strict
\* priority order, and an error is returned when the ladder yields nothing;
\* a last-traded price that is not strictly positive is never the price.
C4_PriceLadder ==
    (fpc = "done" /\ option_row # None) =>
        /\ derived = C4_Ladder(option_row)
        /\ derived = None => result = Returned(None, Err("NoPriceAvailable"))
        /\ derived # None => result.error = None /\ derived.v > 0

\* the day offsets of the provider's expirations from 01/15/2027
C6_DaysFromRequested(exp) ==
    CASE exp = Exp_2027_01_08 -> -7
      [] exp = Exp_2027_01_15 -> 0
      [] exp = Exp_2027_01_22 -> 7
      [] exp = Exp_2027_02_19 -> 35

\* C6: the provider's expirations are listed only after the chain request at
\* the exact requested expiration failed; the expiration then selected has
\* the minimum absolute day-distance to the requested date and is the first
\* such in provider order, and it is the one the next chain request names;
\* when the provider lists no expirations, an error is returned and no
\* further chain is requested.
C6_ExpirationFallback ==
    /\ \A i \in 1..Len(calls) :
          calls[i].op = "options" =>
             /\ i > 1
             /\ calls[i - 1] = Call("option_chain", Exp_2027_01_15, "raise")
             /\ \A j \in 1..(i - 2) : calls[j].op # "option_chain"
    /\ \A i \in 1..Len(calls) :
          (calls[i].op = "options" /\ calls[i].out = "empty") =>
             /\ i = Len(calls)
             /\ fpc = "done"
             /\ result.price = None /\ result.error # None
    /\ fpc = "chain_closest" =>
          \E k \in 1..Len(expirations) :
             /\ closest_exp = expirations[k]
             /\ \A j \in 1..Len(expirations) :
                   /\ Abs(C6_DaysFromRequested(expirations[j]))
                         >= Abs(C6_DaysFromRequested(expirations[k]))
                   /\ j < k => Abs(C6_DaysFromRequested(expirations[j]))
                                  > Abs(C6_DaysFromRequested(expirations[k]))
    /\ \A i \in 1..Len(calls) :
          (calls[i].op = "option_chain" /\ calls[i].arg # Exp_2027_01_15) =>
             /\ i > 1 /\ calls[i - 1].op = "options" /\ calls[i - 1].out = "ok"
             /\ calls[i].arg = closest_exp

\* two expirations seven days either side of the requested one, the later
\* listed first, and the later one selected
C6_Witness ==
    /\ fpc = "chain_closest"
    /\ expirations = <<Exp_2027_01_22, Exp_2027_01_08>>
    /\ closest_exp = Exp_2027_01_22

\* the rows of a chain side whose decimal strike is less than tol thousandths
\* from the requested one
C11_RowsWithin(side, strike, tol) ==
    {i \in 1..Len(side) : IsNum(side[i]) /\ Abs(side[i].v - strike.v) < tol}

\* the outcome of the selection when the rows in W are the matching ones: an
\* error naming the strike when there is none, else the first of them priced
C11_Outcome(side, W) ==
    IF W = {}
    THEN /\ fpc' = "done"
         /\ result' = Returned(None, Err("StrikeNotFound"))
    ELSE /\ fpc' = "price"
         /\ \E i \in W :
               /\ \A j \in W : i <= j
               /\ option_row'.index = i
               /\ option_row'.strike = side[i]

\* C11: within the side of the chain that the right selects (calls for C,
\* puts for P), a contract matches exactly when its strike is within 0.01 of
\* the requested strike, whether "within" is read as less than 0.01 or as at
\* most 0.01; with no match an error is returned, otherwise the first match
\* in provider order is the one priced.
C11_StrikeMatching ==
    [][fpc = "select" =>
         LET side == IF parsed.option_type = <<"C">>
                     THEN opt_chain.calls ELSE opt_chain.puts
         IN \/ C11_Outcome(side, C11_RowsWithin(side, parsed.strike, 10))
            \/ C11_Outcome(side, C11_RowsWithin(side, parsed.strike, 11))]_vars

\* the symbols that classify as a contract and whose date token is not a day
\* of the calendar (the pattern leaves no other way for the parse to fail: it
\* admits only four tokens and a numeric strike)
C13_FailingContracts ==
    {s \in FetchSymbols :
        /\ \A i \in Impls : is_option_symbol(i, s)
        /\ ~ RealDate(StrSplit(s)[2])}

C13_ParseFails == fpc # "idle" /\ sym \in C13_FailingContracts

\* C13: for a symbol that classifies as a contract and fails parsing, price
\* resolution makes no provider call at any point and returns the error
\* with the invalid-format reason.
C13_ParseFailureNoProviderCall ==
    C13_ParseFails =>
        /\ calls = <<>>
        /\ fpc \in {"start", "done"}
        /\ fpc = "done" => result = Returned(None, Err("InvalidFormat"))

\* the resolution of QQQ 02/30/2027 380.00 C has returned
C13_Witness ==
    /\ sym = Sym_QQQ_BadDate
    /\ fpc = "done"
    /\ calls = <<>>
    /\ result = Returned(None, Err("InvalidFormat"))

-----------------------------------------------------------------------------
(* The valuation pipeline of app.py *)

Inf == [inf |-> TRUE]

\* n / d with the fraction dropped
RoundTowardZero(n, d) ==
    LET nn == IF d < 0 THEN -n ELSE n
        dd == IF d < 0 THEN -d ELSE d
    IN  IF nn >= 0 THEN nn \div dd ELSE -((-nn) \div dd)

\* n / d rounded to the nearest integer, ties to the even one (d # 0)
RoundHalfEven(n, d) ==
    LET nn == IF d < 0 THEN -n ELSE n
        dd == IF d < 0 THEN -d ELSE d
        q  == nn \div dd
        r  == nn - q * dd
    IN  IF 2 * r < dd THEN q
        ELSE IF 2 * r > dd THEN q + 1
             ELSE IF q % 2 = 0 THEN q ELSE q + 1

\* (value / total * 100).round(2) on floats, in hundredths of a percent:
\* a float division by zero yields NaN (0/0) or an infinity, not an exception
PercentageUnguarded(value, total) ==
    IF IsNa(value) \/ IsNa(total) THEN NaN
    ELSE IF total.v = 0
         THEN (IF value.v = 0 THEN NaN ELSE Inf)
         ELSE Num(RoundHalfEven(value.v * 10000, total.v))

RECURSIVE UniqueFrom(_, _, _)
UniqueFrom(col, i, seen) ==
    IF i > Len(col) THEN <<>>
    ELSE IF col[i] \in seen THEN UniqueFrom(col, i + 1, seen)
         ELSE <<col[i]>> \o UniqueFrom(col, i + 1, seen \cup {col[i]})

\* df['Symbol'].unique(): the distinct symbols in order of first appearance
UniqueSymbols(df) == UniqueFrom([i \in 1..Len(df) |-> df[i].Symbol], 1, {})

\* d[k] = v on a dict
DictSet(d, k, v) == [x \in (DOMAIN d) \cup {k} |-> IF x = k THEN v ELSE d[x]]

\* if prices:
HasPricesAlways(d) == TRUE

HasPrices(d) == DOMAIN d # {}

\* df['Current Price'] = df['Symbol'].map(prices): NaN where the dict has no
\* entry; the row's index label is kept
WithCurrentPrice(df, d) ==
    [i \in 1..Len(df) |->
        [index   |-> i,
         Symbol  |-> df[i].Symbol,
         Shares  |-> df[i].Shares,
         Current_Price |-> IF df[i].Symbol \in DOMAIN d
                           THEN d[df[i].Symbol] ELSE NaN]]

RECURSIVE SelectRows(_, _)
SelectRows(df, keep) ==
    IF df = <<>> THEN <<>>
    ELSE (IF Head(df).index \in keep THEN <<Head(df)>> ELSE <<>>)
            \o SelectRows(Tail(df), keep)

\* df = df[df['Current Price'].notna()]
NotNaRows(df) ==
    SelectRows(df, {df[i].index : i \in {j \in 1..Len(df) :
                                          ~ IsNa(df[j].Current_Price)}})

\* shares * price on floats: NaN for a NaN price
FloatMul(shares, price) == IF IsNum(price) THEN Num(shares * price.v) ELSE NaN

\* df['Current Value'] = df['Shares'] * df['Current Price']
WithCurrentValue(df) ==
    [i \in 1..Len(df) |->
        [index   |-> df[i].index,
         Symbol  |-> df[i].Symbol,
         Shares  |-> df[i].Shares,
         Current_Price |-> df[i].Current_Price,
         Current_Value |-> FloatMul(df[i].Shares, df[i].Current_Price)]]

\* Series.sum(): NaN entries are skipped, an infinity absorbs
RECURSIVE FloatSum(_)
FloatSum(col) ==
    IF col = <<>> THEN Num(0)
    ELSE LET rest == FloatSum(Tail(col)) IN
         IF Head(col) = NaN THEN rest
         ELSE IF Head(col) = Inf \/ rest = Inf THEN Inf
              ELSE Num(Head(col).v + rest.v)

\* df['Percentage'] = (df['Current Value'] / total_value * 100).round(2)
WithPercentage(df, total) ==
    [i \in 1..Len(df) |->
        [index   |-> df[i].index,
         Symbol  |-> df[i].Symbol,
         Shares  |-> df[i].Shares,
         Current_Price |-> df[i].Current_Price,
         Current_Value |-> df[i].Current_Value,
         Percentage    |-> PercentageUnguarded(df[i].Current_Value, total)]]

ValueColumn(df) == [i \in 1..Len(df) |-> df[i].Current_Value]

\* the three metrics: len(df), total_value, total_value / len(df); the
\* average is kept as a fraction, and 0.0 / 0 on a float is NaN
Metrics(df, total) ==
    [count       |-> Len(df),
     total_value |-> total,
     average     |-> IF Len(df) = 0
                     THEN (IF total.v = 0 THEN NaN ELSE Inf)
                     ELSE [num |-> total.v, den |-> Len(df)]]

\* df.groupby('Symbol').agg({'Current Value': 'sum', 'Percentage': 'sum'})
PieGroups(df) ==
    { [Symbol        |-> s,
       Current_Value |-> FloatSum(ValueColumn(SelectRows(df,
                            {r.index : r \in {df[i] : i \in {j \in 1..Len(df) :
                                                      df[j].Symbol = s}}}))),
       Percentage    |-> FloatSum([i \in 1..Len(df) |->
                            IF df[i].Symbol = s THEN df[i].Percentage
                            ELSE Num(0)])] :
      s \in {df[i].Symbol : i \in 1..Len(df)} }

\* pie_data.sort_values('Current Value', ascending=False): the orders of the
\* groups by descending value; equal values may come in either order
SortedByValue(groups) ==
    { q \in [1..Cardinality(groups) -> groups] :
        /\ \A g \in groups : \E i \in DOMAIN q : q[i] = g
        /\ \A i, j \in DOMAIN q :
              i < j => q[i].Current_Value.v >= q[j].Current_Value.v }

-----------------------------------------------------------------------------
(* The grouped section of PortfolioAIAnalyzer.format_portfolio_summary *)

\* the 'Underlying Ticker' column a caller adds before summarising
WithUnderlyingTicker(df) ==
    [i \in 1..Len(df) |->
        [Symbol        |-> df[i].Symbol,
         Shares        |-> df[i].Shares,
         Current_Value |-> df[i].Current_Value,
         Underlying_Ticker |-> get_underlying_ticker(df[i].Symbol)]]

\* pct = (value / total_value * 100) if total_value > 0 else 0, as the
\* summary line prints it ({pct:.2f}), in hundredths of a percent
PercentageGuarded(value, total) ==
    IF Positive(total) THEN Num(RoundHalfEven(value.v * 10000, total.v))
    ELSE Num(0)

\* df.groupby('Underlying Ticker').agg({'Current Value': 'sum',
\* 'Shares': 'sum'}) and the line of each group
GroupedByUnderlying(df, total) ==
    { LET members == {i \in 1..Len(df) : df[i].Underlying_Ticker = t}
          value   == FloatSum([i \in 1..Len(df) |->
                        IF i \in members THEN df[i].Current_Value ELSE Num(0)])
          shares  == FloatSum([i \in 1..Len(df) |->
                        IF i \in members THEN Num(df[i].Shares) ELSE Num(0)])
      IN [ticker |-> t, value |-> value, total_shares |-> shares,
          pct    |-> PercentageGuarded(value, total)] :
      t \in {df[i].Underlying_Ticker : i \in 1..Len(df)} }

-----------------------------------------------------------------------------
(* SpecApp: one run of the pipeline over a cleaned table *)

MaxHoldings == 3

AppSymbols == {Str_AAPL, Str_QQQ, Sym_QQQ_Call}

AppShares == {1, 2}

\* what fetch_price may return: an error, or a price that is a number or NaN
AppFetchResults ==
    {Returned(None, Err("ProviderError")), Returned(NaN, None),
     Returned(Num(0), None), Returned(Num(300), None)}

InitApp ==
    /\ sym = <<>>
    /\ impl = "app"
    /\ spc = "idle"
    /\ isOption = FALSE
    /\ parsed = None
    /\ underlying = None
    /\ FetchIdle
    /\ apc = "cleaned"
    /\ holdings \in SeqsUpTo([Symbol : AppSymbols, Shares : AppShares], MaxHoldings)
    /\ idx = 0
    /\ prices = <<>>
    /\ errors = <<>>
    /\ quotes = <<>>
    /\ valued = <<>>
    /\ summary = None
    /\ pie_data = <<>>
    /\ grouped = {}

\* if len(df) == 0: "No valid data found after cleaning"
CheckData ==
    /\ apc = "cleaned"
    /\ apc' = IF Len(holdings) = 0 THEN "no_data" ELSE "fetching"
    /\ idx' = 1
    /\ UNCHANGED <<holdings, prices, errors, quotes, valued, summary, pie_data,
                   grouped, symVars, impl, fetchVars>>

\* one iteration of the fetch loop over unique_symbols
FetchLoop ==
    /\ apc = "fetching"
    /\ LET unique_symbols == UniqueSymbols(holdings)
           symbol == unique_symbols[idx]
       IN \E r \in AppFetchResults :
          /\ quotes' = DictSet(quotes, symbol, r)
          /\ IF r.price # None
             THEN /\ prices' = DictSet(prices, symbol, r.price)
                  /\ UNCHANGED errors
             ELSE /\ errors' = Append(errors, [symbol |-> symbol, error |-> r.error])
                  /\ UNCHANGED prices
          /\ idx' = idx + 1
          /\ apc' = IF idx = Len(unique_symbols) THEN "fetched" ELSE "fetching"
    /\ UNCHANGED <<holdings, valued, summary, pie_data, grouped, symVars, impl,
                   fetchVars>>

\* if prices: the valuation, the metrics and the pie data; else the error
\* "Could not fetch any prices"
Aggregate ==
    /\ apc = "fetched"
    /\ IF HasPrices(prices)
       THEN LET df1   == NotNaRows(WithCurrentPrice(holdings, prices))
                df2   == WithCurrentValue(df1)
                total == FloatSum(ValueColumn(df2))
                df3   == WithPercentage(df2, total)
            IN /\ valued' = df3
               /\ summary' = Metrics(df3, total)
               /\ pie_data' \in SortedByValue(PieGroups(df3))
               /\ apc' = "shown"
       ELSE /\ apc' = "no_prices"
            /\ UNCHANGED <<valued, summary, pie_data>>
    /\ UNCHANGED <<holdings, idx, prices, errors, quotes, grouped, symVars, impl,
                   fetchVars>>

\* format_portfolio_summary on the valued table with its 'Underlying Ticker'
\* column: the grouped section
Summarize ==
    /\ apc = "shown"
    /\ grouped' = GroupedByUnderlying(WithUnderlyingTicker(valued),
                                      summary.total_value)
    /\ apc' = "summarized"
    /\ UNCHANGED <<holdings, idx, prices, errors, quotes, valued, summary,
                   pie_data, symVars, impl, fetchVars>>

NextApp == CheckData \/ FetchLoop \/ Aggregate \/ Summarize

SpecApp == InitApp /\ [][NextApp]_vars

-----------------------------------------------------------------------------
(* Claims about the valuation pipeline *)

AppFinished == apc \in {"shown", "summarized", "no_prices"}

\* the rows of the valued output (none when no valuation was made)
ValuedRows == valued

\* C1: every holding whose symbol resolved to a non-error price (fetch_price
\* returned a price and no error) appears exactly once in the valued output,
\* with Current Value = Shares x Current Price; every holding whose symbol
\* resolved to an error appears zero times, whatever the other symbols did.
C1_AggregationCompleteness ==
    AppFinished =>
       /\ \A k \in 1..Len(ValuedRows) : ValuedRows[k].index \in 1..Len(holdings)
       /\ \A i \in 1..Len(holdings) :
             LET h    == holdings[i]
                 q    == quotes[h.Symbol]
                 rows == {k \in 1..Len(ValuedRows) : ValuedRows[k].index = i}
             IN IF q.price # None /\ q.error = None
                THEN /\ Cardinality(rows) = 1
                     /\ \A k \in rows :
                           /\ ValuedRows[k].Symbol = h.Symbol
                           /\ ValuedRows[k].Shares = h.Shares
                           /\ ValuedRows[k].Current_Price = q.price
                           /\ ValuedRows[k].Current_Value
                                 = FloatMul(h.Shares, q.price)
                ELSE rows = {}

\* C7: when the total value of the retained holdings is zero, the percentage
\* of every retained row is zero (no division by zero is made).
C7_ZeroTotalPercentages ==
    (apc = "shown" /\ summary.total_value = Num(0)) =>
        \A k \in 1..Len(valued) : valued[k].Percentage = Num(0)

AllFetchesFailed ==
    /\ AppFinished
    /\ \A s \in DOMAIN quotes : quotes[s].error # None

C9_RowsOfRoot(r) ==
    {k \in 1..Len(valued) : get_underlying_ticker(valued[k].Symbol) = r}

RECURSIVE C9_SumValues(_)
C9_SumValues(rows) ==
    IF rows = {} THEN 0
    ELSE LET k == CHOOSE x \in rows : TRUE
         IN valued[k].Current_Value.v + C9_SumValues(rows \ {k})

\* C9: the grouped data of the pie chart has one bucket per underlying root
\* of the retained holdings (an option row and a stock row on the same root
\* share a bucket), the bucket's value is the sum of its holdings' values and
\* its percentage is the bucket value / totalValue x 100.
C9_GroupedByRoot ==
    apc = "shown" =>
       LET roots == {get_underlying_ticker(valued[k].Symbol) :
                        k \in 1..Len(valued)}
       IN /\ Len(pie_data) = Cardinality(roots)
          /\ \A r \in roots :
                \E i \in 1..Len(pie_data) :
                   /\ pie_data[i].Symbol = r
                   /\ pie_data[i].Current_Value = Num(C9_SumValues(C9_RowsOfRoot(r)))
                   /\ Positive(summary.total_value) =>
                         pie_data[i].Percentage =
                            Num(RoundHalfEven(10000 * C9_SumValues(C9_RowsOfRoot(r)),
                                              summary.total_value.v))

RECURSIVE C12_SumPercentages(_)
C12_SumPercentages(k) ==
    IF k = 0 THEN 0 ELSE valued[k].Percentage.v + C12_SumPercentages(k - 1)

\* C12: for a non-empty set of retained holdings with positive total value,
\* each percentage is a number no more than half of 0.01 away from
\* value / totalValue x 100 (that ratio rounded to 2 decimal places), and the
\* sum of the percentages differs from 100.00 by at most 0.01 x count.
C12_PercentageSum ==
    (apc = "shown" /\ Len(valued) > 0 /\ Positive(summary.total_value)) =>
        /\ \A k \in 1..Len(valued) :
              /\ IsNum(valued[k].Percentage)
              /\ 2 * Abs(valued[k].Percentage.v * summary.total_value.v
                            - 10000 * valued[k].Current_Value.v)
                    <= summary.total_value.v
        /\ Abs(C12_SumPercentages(Len(valued)) - 10000) <= Len(valued)

\* three retained holdings of equal value: 33.33 each, 99.99 in all
C12_Witness ==
    /\ apc = "shown"
    /\ Len(valued) = 3
    /\ Positive(summary.total_value)
    /\ \A k \in 1..3 : valued[k].Percentage = Num(3333)

\* C14: after the fetch loop and the valuation filter, every cleaned holding
\* either appears in the valued output or has its symbol in the reported
\* errors, whatever fetch_price returned for it.
C14_NoSilentDrop ==
    AppFinished =>
        \A i \in 1..Len(holdings) :
           \/ \E k \in 1..Len(valued) : valued[k].index = i
           \/ \E e \in 1..Len(errors) : errors[e].symbol = holdings[i].Symbol

-----------------------------------------------------------------------------
(* The three parts together *)

Init == InitSymbol \/ InitFetch \/ InitApp

Next == NextSymbol \/ NextFetch \/ NextApp

Spec == Init /\ [][Next]_vars

=============================================================================
